---- MODULE Spec2Model ----
(***************************************************************************)
(* A model of the javascriptCalendar engine: the comparison primitives,    *)
(* ValueRange, Definitions.getField, Calendar.createInstance and the       *)
(* BasicCalendarInstance operations range / set / derive.                  *)
(*                                                                         *)
(* Conventions.                                                            *)
(*  - A JavaScript value that may be undefined is a set with at most one   *)
(*    element: {} is undefined, {x} is the value x.                        *)
(*  - A JavaScript number is a record [kind, v]; kind is "int" (the        *)
(*    integer v), "half" (the number v + 0.5), "-inf", "+inf" or "nan".    *)
(*  - A call that may throw yields [threw, value, error, passed]; threw is *)
(*    "none" for a normal return, otherwise the name of the error class.   *)
(*  - Every specification keeps the last call made in the variable call.   *)
(***************************************************************************)
EXTENDS Integers, Sequences, FiniteSets, TLC

VARIABLES valueRange, fieldBag, calendar, calendarInstance, calendarBuilder,
          callStack, call

vars == <<valueRange, fieldBag, calendar, calendarInstance, calendarBuilder,
          callStack, call>>

(***************************************************************************)
(* Bounds of the model.                                                    *)
(***************************************************************************)
\* The range boundaries and tested values are the integers 0..MaxValue.
MaxValue == 3

\* The field values of a field bag are the integers 1..MaxFieldValue.
MaxFieldValue == 2

\* The boundaries of the envelopes of a vague range are the integers
\* 0..MaxEnvelope.
MaxEnvelope == 1

\* the number of nested calls the host's call stack holds
MaxCallStack == 8

Values == 0..MaxValue

FieldValues == 1..MaxFieldValue

(***************************************************************************)
(* Optional values.                                                        *)
(***************************************************************************)
Undefined == {}

Some(x) == {x}

The(opt) == CHOOSE x \in opt : TRUE

\* The attributes of a thrown error: its message, the field it names
\* (UnsupportedFieldException.fieldName, the cause of InvalidFieldValue) and
\* the value it carries (InvalidFieldValue.value; null is modelled as {}).
ErrorOf(message, field, value) ==
  [message |-> message, field |-> field, value |-> value]

NoError == ErrorOf("", Undefined, Undefined)

\* passed is the field bag handed to Calendar.createInstance, if any.
Return(x) ==
  [threw |-> "none", value |-> Some(x), error |-> NoError,
   passed |-> Undefined]

ThrowWith(class, message, field, value) ==
  [threw |-> class, value |-> Undefined,
   error |-> ErrorOf(message, field, value), passed |-> Undefined]

Throw(class) == ThrowWith(class, "", Undefined, Undefined)

(***************************************************************************)
(* JavaScript numbers.                                                     *)
(***************************************************************************)
Num(i) == [kind |-> "int", v |-> i]

NEGATIVE_INFINITY == [kind |-> "-inf", v |-> 0]

POSITIVE_INFINITY == [kind |-> "+inf", v |-> 0]

NaN == [kind |-> "nan", v |-> 0]

\* The number i + 0.5, a number that is not an integer.
Half(i) == [kind |-> "half", v |-> i]

NumberIsInteger(n) == n.kind = "int"

NumberIsFinite(n) == n.kind \in {"int", "half"}

\* Twice a finite number.
Twice(n) == IF n.kind = "half" THEN 2 * n.v + 1 ELSE 2 * n.v

\* a < b of JavaScript: false whenever an operand is NaN.
NumLess(a, b) ==
  /\ a.kind # "nan"
  /\ b.kind # "nan"
  /\ \/ a.kind = "-inf" /\ b.kind # "-inf"
     \/ NumberIsFinite(a) /\ b.kind = "+inf"
     \/ NumberIsFinite(a) /\ NumberIsFinite(b) /\ Twice(a) < Twice(b)

\* a === b of JavaScript on numbers: NaN equals nothing.
NumEqual(a, b) == a.kind # "nan" /\ a = b

NumLeq(a, b) == NumLess(a, b) \/ NumEqual(a, b)

NumGeq(a, b) == NumLess(b, a) \/ NumEqual(a, b)

(***************************************************************************)
(* comparison.ts                                                           *)
(***************************************************************************)
getComparisonResult(result) ==
  IF NumberIsInteger(result)
    THEN LET exists == ~NumberIsFinite(result)
         IN [result   |-> result,
             exists   |-> exists,
             isLesser |-> exists /\ NumLess(result, Num(0)),
             isGreater |-> exists /\ NumLess(Num(0), result),
             isEqual  |-> exists /\ NumEqual(result, Num(0))]
    ELSE [result |-> NaN, exists |-> FALSE, isLesser |-> FALSE,
          isGreater |-> FALSE, isEqual |-> FALSE]

valueOf(comparison) == comparison.result

\* DefaultComparator.compare on two numbers.
DefaultCompare(compared, comparee) ==
  getComparisonResult(IF NumLess(compared, comparee) THEN Num(0 - 1)
                      ELSE IF NumLess(comparee, compared) THEN Num(1)
                      ELSE Num(0))

\* ComparableNumber.compareTo; a ComparableInteger wraps a safe integer.
ComparableCompareTo(this, other) ==
  IF Num(this).kind = "nan" \/ Num(other).kind = "nan"
    THEN getComparisonResult(NaN)
    ELSE DefaultCompare(Num(this), Num(other))

(***************************************************************************)
(* ValueRange.ts: ValueRange<ComparableInteger>                            *)
(***************************************************************************)
ValueRange(lowerBoundary, upperBoundary, includeLower, includeUpper) ==
  [lowerBoundary |-> lowerBoundary,
   upperBoundary |-> upperBoundary,
   includesLowerBoundary |-> includeLower,
   includesUpperBoundary |-> includeUpper]

closedRange(lowerBoundary, upperBoundary) ==
  ValueRange(lowerBoundary, upperBoundary, TRUE, TRUE)

hasLowerBoundary(this) == this.lowerBoundary # Undefined

hasUpperBoundary(this) == this.upperBoundary # Undefined

\* getLowerBoundary(): the boundary, or Error when it is undefined
getLowerBoundary(this) ==
  IF this.lowerBoundary = Undefined
    THEN ThrowWith("Error", "The lower boundary does not exist", Undefined,
                   Undefined)
    ELSE Return(The(this.lowerBoundary))

\* getUpperBoundary(): the boundary, or Error when it is undefined
getUpperBoundary(this) ==
  IF this.upperBoundary = Undefined
    THEN ThrowWith("Error", "The upper boundary does not exist", Undefined,
                   Undefined)
    ELSE Return(The(this.upperBoundary))

\* The value a call returned; used where the code has checked beforehand
\* that the call does not throw.
Returned(outcome) == The(outcome.value)

contains(this, value) ==
  /\ \/ this.lowerBoundary = Undefined
     \/ NumGeq(valueOf(ComparableCompareTo(Returned(getLowerBoundary(this)), value)),
               Num(IF this.includesLowerBoundary THEN 0 ELSE 1))
  /\ \/ this.upperBoundary = Undefined
     \/ NumLeq(valueOf(ComparableCompareTo(Returned(getUpperBoundary(this)), value)),
               Num(IF this.includesUpperBoundary THEN 0 ELSE 0 - 1))

isEmpty(this) ==
  /\ hasLowerBoundary(this)
  /\ hasLowerBoundary(this)
  /\ this.upperBoundary # Undefined
  /\ this.lowerBoundary # Undefined
  /\ NumGeq(valueOf(ComparableCompareTo(Returned(getLowerBoundary(this)),
                                        Returned(getUpperBoundary(this)))),
            Num((IF this.includesLowerBoundary THEN 1 ELSE 0)
                  + (IF this.includesUpperBoundary THEN 1 ELSE 0)))

refineUpperBoundary(this, value) ==
  IF \/ value = Undefined
     \/ /\ hasUpperBoundary(this)
        /\ ComparableCompareTo(The(value), Returned(getUpperBoundary(this))).isGreater
    THEN this
    ELSE ValueRange(this.lowerBoundary, value, this.includesLowerBoundary,
                    this.includesUpperBoundary)

refineLowerBoundary(this, value) ==
  IF \/ value = Undefined
     \/ /\ hasLowerBoundary(this)
        /\ ComparableCompareTo(The(value), Returned(getLowerBoundary(this))).isLesser
    THEN this
    ELSE ValueRange(value, this.upperBoundary, this.includesLowerBoundary,
                    this.includesUpperBoundary)

expandUpperBoundary(this, value) ==
  IF /\ hasUpperBoundary(this)
     /\ \/ value = Undefined
        \/ ComparableCompareTo(Returned(getUpperBoundary(this)), The(value)).isLesser
    THEN ValueRange(this.lowerBoundary, value, this.includesLowerBoundary,
                    this.includesUpperBoundary)
    ELSE this

expandLowerBoundary(this, value) ==
  IF /\ hasLowerBoundary(this)
     /\ \/ value = Undefined
        \/ ComparableCompareTo(Returned(getLowerBoundary(this)), The(value)).isGreater
    THEN ValueRange(value, this.upperBoundary, this.includesLowerBoundary,
                    this.includesUpperBoundary)
    ELSE this

\* expand: result is the local variable of the source, {} once it has been
\* set to undefined.
expand(this, value) ==
  IF contains(this, value)
    THEN Return(this)
    ELSE
      LET afterLower ==
            IF /\ hasLowerBoundary(this)
               /\ ComparableCompareTo(Returned(getLowerBoundary(this)), value).isGreater
              THEN IF this.includesLowerBoundary
                     THEN Some(expandLowerBoundary(this, Some(value)))
                     ELSE Undefined
              ELSE Some(this)
          afterUpper ==
            IF /\ afterLower # Undefined
               /\ hasUpperBoundary(The(afterLower))
               /\ ComparableCompareTo(Returned(getUpperBoundary(this)), value).isLesser
              THEN IF The(afterLower).includesUpperBoundary
                     THEN Some(expandUpperBoundary(The(afterLower), Some(value)))
                     ELSE Undefined
              ELSE afterLower
      IN IF afterUpper # Undefined
           THEN Return(The(afterUpper))
           ELSE Throw("Error")

\* A mutant of compareTo: the lower boundary of the receiver is compared
\* with the upper boundary of the argument.
compareTo_lowerAgainstUpper(this, other) ==
  IF hasLowerBoundary(this) /\ hasUpperBoundary(other)
    THEN ComparableCompareTo(Returned(getLowerBoundary(this)), Returned(getUpperBoundary(other)))
    ELSE IF hasLowerBoundary(this)
      THEN getComparisonResult(POSITIVE_INFINITY)
      ELSE getComparisonResult(NEGATIVE_INFINITY)

compareTo(this, other) ==
  IF hasLowerBoundary(this) /\ hasLowerBoundary(other)
    THEN
      LET lower == ComparableCompareTo(Returned(getLowerBoundary(this)),
                                       Returned(getLowerBoundary(other)))
          upper ==
            IF hasUpperBoundary(this) /\ hasUpperBoundary(other)
              THEN ComparableCompareTo(Returned(getUpperBoundary(this)),
                                       Returned(getUpperBoundary(other)))
              ELSE IF hasUpperBoundary(this)
                THEN getComparisonResult(NEGATIVE_INFINITY)
                ELSE getComparisonResult(POSITIVE_INFINITY)
      IN IF lower.isEqual
           THEN IF this.includesLowerBoundary # other.includesLowerBoundary
                  THEN getComparisonResult(
                         Num(IF this.includesLowerBoundary THEN 0 - 1 ELSE 1))
                  ELSE IF /\ upper.isEqual
                          /\ this.includesUpperBoundary
                               # other.includesUpperBoundary
                         THEN getComparisonResult(
                                Num(IF this.includesUpperBoundary
                                      THEN 1 ELSE 0 - 1))
                         ELSE upper
           ELSE lower
    ELSE IF hasLowerBoundary(this)
      THEN getComparisonResult(POSITIVE_INFINITY)
      ELSE getComparisonResult(NEGATIVE_INFINITY)

(***************************************************************************)
(* The ranges and calls of the ValueRange specification.                   *)
(***************************************************************************)
Boundaries == {Undefined} \cup {Some(v) : v \in Values}

Ranges ==
  {ValueRange(l, u, il, iu) :
     l \in Boundaries, u \in Boundaries, il \in BOOLEAN, iu \in BOOLEAN}

NoCall == [op |-> "none"]

NoCalendar == Undefined

NoFieldBag == <<>>

NoRange == closedRange(Undefined, Undefined)

NoInstance == Undefined


\* new ValueRange(lowerBoundary, upperBoundary, includeLower, includeUpper)
NewRange ==
  \E created \in Ranges :
    /\ valueRange' = created
    /\ call' = [op |-> "new", receiver |-> created]
    /\ UNCHANGED <<fieldBag, calendar, calendarInstance,
                 calendarBuilder, callStack>>

\* range.contains(value)
Contains ==
  \E value \in Values :
    /\ call' = [op |-> "contains", receiver |-> valueRange, arg |-> value,
                ret |-> contains(valueRange, value)]
    /\ UNCHANGED <<valueRange, fieldBag, calendar, calendarInstance,
                 calendarBuilder, callStack>>

\* range = range.expand(value), unless expand throws
Expand ==
  \E value \in Values :
    LET outcome == expand(valueRange, value)
    IN /\ call' = [op |-> "expand", receiver |-> valueRange, arg |-> value,
                   threw |-> outcome.threw, ret |-> outcome.value]
       /\ valueRange' = IF outcome.threw = "none" THEN The(outcome.value) ELSE valueRange
       /\ UNCHANGED <<fieldBag, calendar, calendarInstance,
                 calendarBuilder, callStack>>

\* range.compareTo(other)
CompareTo ==
  \E other \in Ranges :
    /\ call' = [op |-> "compareTo", receiver |-> valueRange, arg |-> other,
                ret |-> compareTo(valueRange, other)]
    /\ UNCHANGED <<valueRange, fieldBag, calendar, calendarInstance,
                 calendarBuilder, callStack>>

\* range.isEmpty
IsEmpty ==
  /\ call' = [op |-> "isEmpty", receiver |-> valueRange,
              ret |-> isEmpty(valueRange)]
  /\ UNCHANGED <<valueRange, fieldBag, calendar, calendarInstance,
                 calendarBuilder, callStack>>

\* range = range.refineUpperBoundary(value)
RefineUpperBoundary ==
  \E value \in Boundaries :
    LET refined == refineUpperBoundary(valueRange, value)
    IN /\ call' = [op |-> "refineUpperBoundary", receiver |-> valueRange,
                   arg |-> value, ret |-> refined]
       /\ valueRange' = refined
       /\ UNCHANGED <<fieldBag, calendar, calendarInstance,
                 calendarBuilder, callStack>>

\* range = range.refineLowerBoundary(value)
RefineLowerBoundary ==
  \E value \in Boundaries :
    LET refined == refineLowerBoundary(valueRange, value)
    IN /\ call' = [op |-> "refineLowerBoundary", receiver |-> valueRange,
                   arg |-> value, ret |-> refined]
       /\ valueRange' = refined
       /\ UNCHANGED <<fieldBag, calendar, calendarInstance,
                 calendarBuilder, callStack>>

\* range = range.expandUpperBoundary(value)
ExpandUpperBoundary ==
  \E value \in Boundaries :
    LET expanded == expandUpperBoundary(valueRange, value)
    IN /\ call' = [op |-> "expandUpperBoundary", receiver |-> valueRange,
                   arg |-> value, ret |-> expanded]
       /\ valueRange' = expanded
       /\ UNCHANGED <<fieldBag, calendar, calendarInstance,
                 calendarBuilder, callStack>>

\* range = range.expandLowerBoundary(value)
ExpandLowerBoundary ==
  \E value \in Boundaries :
    LET expanded == expandLowerBoundary(valueRange, value)
    IN /\ call' = [op |-> "expandLowerBoundary", receiver |-> valueRange,
                   arg |-> value, ret |-> expanded]
       /\ valueRange' = expanded
       /\ UNCHANGED <<fieldBag, calendar, calendarInstance,
                 calendarBuilder, callStack>>

\* The numbers handed to getComparisonResult.
Numbers ==
  {Num(i) : i \in (0 - MaxValue)..MaxValue}
    \cup {Half(i) : i \in (0 - MaxValue)..(MaxValue - 1)}
    \cup {NEGATIVE_INFINITY, POSITIVE_INFINITY, NaN}

\* getComparisonResult(result)
GetComparisonResult ==
  \E result \in Numbers :
    /\ call' = [op |-> "getComparisonResult", arg |-> result,
                ret |-> getComparisonResult(result)]
    /\ UNCHANGED <<valueRange, fieldBag, calendar, calendarInstance,
                 calendarBuilder, callStack>>

\* range.getLowerBoundary()
GetLowerBoundary ==
  LET outcome == getLowerBoundary(valueRange)
  IN /\ call' = [op |-> "getLowerBoundary", receiver |-> valueRange,
                 threw |-> outcome.threw, error |-> outcome.error,
                 ret |-> outcome.value]
     /\ UNCHANGED <<valueRange, fieldBag, calendar, calendarInstance,
                    calendarBuilder, callStack>>

\* range.getUpperBoundary()
GetUpperBoundary ==
  LET outcome == getUpperBoundary(valueRange)
  IN /\ call' = [op |-> "getUpperBoundary", receiver |-> valueRange,
                 threw |-> outcome.threw, error |-> outcome.error,
                 ret |-> outcome.value]
     /\ UNCHANGED <<valueRange, fieldBag, calendar, calendarInstance,
                    calendarBuilder, callStack>>

InitRange ==
  /\ valueRange \in Ranges
  /\ fieldBag = NoFieldBag
  /\ calendar = NoCalendar
  /\ calendarInstance = NoInstance
  /\ calendarBuilder = Undefined
  /\ callStack = <<>>
  /\ call = NoCall

NextRange ==
  \/ NewRange
  \/ Contains
  \/ Expand
  \/ CompareTo
  \/ IsEmpty
  \/ RefineUpperBoundary
  \/ RefineLowerBoundary
  \/ ExpandUpperBoundary
  \/ ExpandLowerBoundary
  \/ GetComparisonResult
  \/ GetLowerBoundary
  \/ GetUpperBoundary

SpecRange == InitRange /\ [][NextRange]_vars

(***************************************************************************)
(* Definitions.ts                                                          *)
(***************************************************************************)
GenericFields == {"day", "week", "month", "quarter", "year", "era"}

isGenericField(field) == field \in GenericFields

\* A mutant of getField: a quarter without a year resolves to
\* quarterOfYear.
getField_quarterWithoutYear(fields, baseField) ==
  IF baseField \notin DOMAIN fields
    THEN Undefined
    ELSE
      CASE baseField = "day" ->
             IF "week" \in DOMAIN fields THEN Some("dayOfWeek")
             ELSE IF "month" \in DOMAIN fields THEN Some("dayOfMonth")
             ELSE IF "year" \in DOMAIN fields THEN Some("dayOfYear")
             ELSE Undefined
        [] baseField = "year" ->
             IF "era" \in DOMAIN fields THEN Some("yearOfEra")
             ELSE Some("canonicalYear")
        [] baseField = "week" ->
             IF "month" \in DOMAIN fields THEN Some("weekOfMonth")
             ELSE IF "year" \in DOMAIN fields THEN Some("weekOfYear")
             ELSE Undefined
        [] baseField = "month" ->
             IF "quarter" \in DOMAIN fields THEN Some("monthOfQuarter")
             ELSE IF "year" \in DOMAIN fields THEN Some("monthOfYear")
             ELSE Undefined
        [] baseField = "quarter" -> Some("quarterOfYear")
        [] baseField = "era" -> Some(baseField)
        [] OTHER -> Undefined

\* A mutant of getField: the day case tests month before week.
getField_monthBeforeWeek(fields, baseField) ==
  IF baseField \notin DOMAIN fields
    THEN Undefined
    ELSE
      CASE baseField = "day" ->
             IF "month" \in DOMAIN fields THEN Some("dayOfMonth")
             ELSE IF "week" \in DOMAIN fields THEN Some("dayOfWeek")
             ELSE IF "year" \in DOMAIN fields THEN Some("dayOfYear")
             ELSE Undefined
        [] baseField = "year" ->
             IF "era" \in DOMAIN fields THEN Some("yearOfEra")
             ELSE Some("canonicalYear")
        [] baseField = "week" ->
             IF "month" \in DOMAIN fields THEN Some("weekOfMonth")
             ELSE IF "year" \in DOMAIN fields THEN Some("weekOfYear")
             ELSE Undefined
        [] baseField = "month" ->
             IF "quarter" \in DOMAIN fields THEN Some("monthOfQuarter")
             ELSE IF "year" \in DOMAIN fields THEN Some("monthOfYear")
             ELSE Undefined
        [] baseField = "quarter" ->
             IF "year" \in DOMAIN fields THEN Some("quarterOfYear")
             ELSE Undefined
        [] baseField = "era" -> Some(baseField)
        [] OTHER -> Undefined

\* A field bag is a function from the field names it holds to their values;
\* "name in fields" of the source is name \in DOMAIN fields.
getField(fields, baseField) ==
  IF baseField \notin DOMAIN fields
    THEN Undefined
    ELSE
      CASE baseField = "day" ->
             IF "week" \in DOMAIN fields THEN Some("dayOfWeek")
             ELSE IF "month" \in DOMAIN fields THEN Some("dayOfMonth")
             ELSE IF "year" \in DOMAIN fields THEN Some("dayOfYear")
             ELSE Undefined
        [] baseField = "year" ->
             IF "era" \in DOMAIN fields THEN Some("yearOfEra")
             ELSE Some("canonicalYear")
        [] baseField = "week" ->
             IF "month" \in DOMAIN fields THEN Some("weekOfMonth")
             ELSE IF "year" \in DOMAIN fields THEN Some("weekOfYear")
             ELSE Undefined
        [] baseField = "month" ->
             IF "quarter" \in DOMAIN fields THEN Some("monthOfQuarter")
             ELSE IF "year" \in DOMAIN fields THEN Some("monthOfYear")
             ELSE Undefined
        [] baseField = "quarter" ->
             IF "year" \in DOMAIN fields THEN Some("quarterOfYear")
             ELSE Undefined
        [] baseField = "era" -> Some(baseField)
        [] OTHER -> Undefined

(***************************************************************************)
(* calendar.ts: BasicCalendarInstance and the instance shapes              *)
(***************************************************************************)
EmptyRecord == <<>>

\* An element of a field structure: a field name, or a list of alternative
\* tails, each tail a sequence of field names.
FieldOf(name) == [isArray |-> FALSE, name |-> name, tails |-> <<>>]

ListOf(tails) == [isArray |-> TRUE, name |-> "", tails |-> tails]

RECURSIVE Flatten(_)
Flatten(lists) ==
  IF lists = <<>> THEN <<>> ELSE Head(lists) \o Flatten(Tail(lists))

\* The inner reduce of composeAllowedFields: every prefix of result is
\* extended by fields.
composeStep(result, fields) ==
  Flatten([i \in 1..Len(result) |->
             IF fields.isArray
               THEN [j \in 1..Len(fields.tails) |-> result[i] \o fields.tails[j]]
               ELSE <<Append(result[i], fields.name)>>])

RECURSIVE composeReduce(_, _)
composeReduce(result, fieldStruct) ==
  IF fieldStruct = <<>>
    THEN result
    ELSE composeReduce(composeStep(result, Head(fieldStruct)),
                       Tail(fieldStruct))

\* The outer reduce starts from the empty list of paths.
composeAllowedFields(fieldStruct) == composeReduce(<<>>, fieldStruct)

YearStructure ==
  <<FieldOf("year"), ListOf(<<(<<"canonicalYear">>), (<<"yearOfEra">>)>>)>>

DateStructure ==
  <<FieldOf("year"), ListOf(<<(<<"canonicalYear">>), (<<"yearOfEra">>)>>),
    FieldOf("day"), ListOf(<<(<<"dayOfMonth">>), (<<"dayOfYear">>)>>)>>

YearAndMonthStructure ==
  <<FieldOf("year"), FieldOf("month"), ListOf(<<(<<"monthOfYear">>)>>)>>

Shapes == {"YearInstance", "DateInstance", "YearAndMonthInstance"}

\* The static baseFields of the shape classes.
baseFields(shape) ==
  CASE shape = "YearInstance" -> composeAllowedFields(YearStructure)
    [] shape = "DateInstance" -> composeAllowedFields(DateStructure)
    [] shape = "YearAndMonthInstance" ->
         composeAllowedFields(YearAndMonthStructure)

\* An object handed over as field values is the sequence of its own
\* properties [name, value] in insertion order.
Property(name, value) == [name |-> name, value |-> value]

\* Object.getOwnPropertyNames(object): the names in insertion order
getOwnPropertyNames(object) == [i \in 1..Len(object) |-> object[i].name]

\* setFieldValues tests isInteger(result[field]) on the record it is
\* building, which does not hold field yet: the first field name, in
\* insertion order, throws.
setFieldValues(fieldValues) ==
  LET names == getOwnPropertyNames(fieldValues)
  IN IF Len(names) = 0
       THEN Return(EmptyRecord)
       ELSE ThrowWith("InvalidFieldValue", "is not an integer",
                      Some(names[1]), Undefined)

\* new BasicCalendarInstance(calendar, definition, fieldValues)
BasicCalendarInstance(shape, cal, definition, fieldValues) ==
  LET stored == setFieldValues(fieldValues)
  IN IF stored.threw = "none"
       THEN Return([shape |-> shape,
                    calendar |-> cal.calendarName,
                    definition |-> definition,
                    fieldValues |-> The(stored.value),
                    baseFields |-> {fieldValues[i].name :
                                     i \in 1..Len(fieldValues)},
                    derivedFields |-> {}])
       ELSE stored

\* createFieldValues looks the matching path up and returns nothing: both
\* branches end without a value.
createFieldValues(cal, fields, allowedFields) ==
  IF Len(allowedFields) > 0 THEN Undefined ELSE Undefined

\* Calendar.getFieldInstanceDefinition is not implemented.
getFieldInstanceDefinition(cal, fieldValues) == Throw("Error")

createFieldDefinition(cal, fields, allowedFields) ==
  LET fieldValues == createFieldValues(cal, fields, allowedFields)
  IN IF fieldValues # Undefined
       THEN getFieldInstanceDefinition(cal, The(fieldValues))
       ELSE Return(Undefined)

\* new YearInstance / DateInstance / YearAndMonthInstance(calendar, fields)
ShapeInstance(shape, cal, fields) ==
  LET definition == createFieldDefinition(cal, fields, baseFields(shape))
      fieldList == createFieldValues(cal, fields, baseFields(shape))
  IN IF definition.threw # "none"
       THEN definition
       ELSE IF fieldList # Undefined /\ The(definition.value) # Undefined
         THEN BasicCalendarInstance(shape, cal, The(The(definition.value)),
                                    The(fieldList))
         ELSE ThrowWith("RangeError", "Could not create", Undefined,
                        Undefined)

(***************************************************************************)
(* calendar.ts: Calendar                                                   *)
(***************************************************************************)
\* The instance declarations nested in the first declaration of
\* createInstance.
DateDeclaration ==
  [baseField |-> "day", allowedFields |-> <<"dayOfYear", "dayOfMonth">>,
   instance |-> "DateInstance"]

YearAndMonthDeclaration ==
  [baseField |-> "month", allowedFields |-> <<"monthOfYear">>,
   instance |-> "YearAndMonthInstance"]

\* hasField of createInstanceDeclaration on a field name, and on a
\* declaration whose allowed fields are field names: the base field tested
\* is the one of the enclosing declaration.
hasFieldName(fields, baseField, tested) ==
  getField(fields, baseField) = Some(tested)

hasField(fields, baseField, tested) ==
  \E i \in 1..Len(tested.allowedFields) :
    hasFieldName(fields, baseField, tested.allowedFields[i])

\* (allowedFields ?? []).filter((field) => ("instance" in field)): the
\* declarations that carry an instance, in their order.
withInstance(allowedFields) ==
  SelectSeq(allowedFields, LAMBDA field : "instance" \in DOMAIN field)

\* The instance closure of a declaration made without an instance; it
\* looks among the declarations that carry an instance.
dispatchInstance(cal, fields, baseField, allowedFields) ==
  LET instantiable == withInstance(allowedFields)
      matching == {i \in 1..Len(instantiable) :
                     hasField(fields, baseField, instantiable[i])}
      built == ShapeInstance(
                 instantiable[CHOOSE i \in matching :
                                \A j \in matching : i <= j].instance,
                 cal, fields)
  IN IF matching # {} /\ built.threw = "none"
       THEN built
       ELSE ThrowWith("CalendarException", "Invalid instance definition",
                      Undefined, Undefined)

createInstanceDeclaration(baseField, allowedFields, instance) ==
  IF instance = Undefined
    THEN [baseField |-> baseField,
          allowedFields |-> Some(IF allowedFields = Undefined THEN <<>>
                                 ELSE withInstance(The(allowedFields))),
          instance |-> "dispatch"]
    ELSE [baseField |-> baseField, allowedFields |-> Undefined,
          instance |-> The(instance)]

InstanceDeclarations ==
  <<createInstanceDeclaration(
      "year", Some(<<DateDeclaration, YearAndMonthDeclaration>>), Undefined),
    createInstanceDeclaration("year", Undefined, Some("YearInstance"))>>

\* The callback of find in createInstance: some allowed field of the
\* declaration, and a defined getField(source, baseField).
declarationMatches(source, declaration) ==
  /\ declaration.allowedFields # Undefined
  /\ Len(The(declaration.allowedFields)) > 0
  /\ getField(source, declaration.baseField) # Undefined

\* The index of the declaration find returns, 0 when it returns undefined.
selectDeclaration(source) ==
  LET matching == {i \in 1..Len(InstanceDeclarations) :
                     declarationMatches(source, InstanceDeclarations[i])}
  IN IF matching = {} THEN 0
     ELSE CHOOSE i \in matching : \A j \in matching : i <= j

\* A mutant of createInstance: without a matching declaration it falls
\* back to the year shape.
createInstance_fallbackToYear(cal, source) ==
  LET selected == selectDeclaration(source)
      field == InstanceDeclarations[selected]
  IN IF selected = 0
       THEN ShapeInstance("YearInstance", cal, source)
       ELSE IF field.instance = "dispatch"
         THEN dispatchInstance(cal, source, field.baseField,
                               The(field.allowedFields))
         ELSE ShapeInstance(field.instance, cal, source)

createInstance(cal, source) ==
  LET selected == selectDeclaration(source)
      field == InstanceDeclarations[selected]
  IN IF selected = 0
       THEN ThrowWith("CalendarException",
                      "The calendar instance does not exist", Undefined,
                      Undefined)
       ELSE IF field.instance = "dispatch"
         THEN dispatchInstance(cal, source, field.baseField,
                               The(field.allowedFields))
         ELSE ShapeInstance(field.instance, cal, source)

\* The classes a calendar is made from.  Calendar and ISOCalendar leave
\* constructSupportedFields and constructFieldRanges unimplemented;
\* HostCalendar stands for a subclass of a host application that implements
\* both, returning no fields and no ranges.
CalendarClasses == {"Calendar", "ISOCalendar", "HostCalendar"}

constructSupportedFields(class) ==
  IF class = "HostCalendar" THEN Return(EmptyRecord) ELSE Throw("Error")

constructFieldRanges(class) ==
  IF class = "HostCalendar"
    THEN Return(<<EmptyRecord, EmptyRecord>>)
    ELSE Throw("Error")

DefaultStartOfYear == [day |-> 1]

\* new Calendar(calendarName, calendarOptions); calendarOptions is
\* undefined or a record of optional offset and startOfYear.
Calendar(class, calendarName, calendarOptions) ==
  LET offsets == IF calendarOptions = Undefined
                      \/ The(calendarOptions).offset = Undefined
                   THEN EmptyRecord
                   ELSE The(The(calendarOptions).offset)
      startOfYear == IF calendarOptions = Undefined
                          \/ The(calendarOptions).startOfYear = Undefined
                       THEN DefaultStartOfYear
                       ELSE The(The(calendarOptions).startOfYear)
      supported == constructSupportedFields(class)
      ranges == constructFieldRanges(class)
  IN IF supported.threw # "none" THEN supported
     ELSE IF ranges.threw # "none" THEN ranges
     ELSE Return([class |-> class,
                  calendarName |-> calendarName,
                  offsets |-> offsets,
                  startOfYear |-> startOfYear,
                  supportedFields |-> EmptyRecord,
                  fieldRanges |-> The(ranges.value)[1],
                  canonicalRanges |-> The(ranges.value)[2]])

(***************************************************************************)
(* calendar.ts: the operations of BasicCalendarInstance                    *)
(***************************************************************************)
\* FieldBuilder.createFieldDefinitionFunction(fieldName, currentValue,
\* valueRange) applied to (seekField, value).
fieldDefinitionFunction(definer, seekField, value) ==
  IF /\ seekField = definer.fieldName
     /\ \/ value = Undefined
        \/ The(value) = definer.currentValue
    THEN Return([fieldName |-> definer.fieldName, range |-> definer.range])
    ELSE Throw("RangeError")

\* The properties every object literal inherits from Object.prototype.
\* kind is what typeof tells of the property; threw is how a call
\* property(fieldName, value), made without a receiver, ends: isPrototypeOf,
\* toString and constructor return a value that has no range, the others
\* need an object as receiver and throw TypeError.
ObjectPrototype ==
  [name \in {"constructor", "toString", "toLocaleString", "valueOf",
             "hasOwnProperty", "isPrototypeOf", "propertyIsEnumerable",
             "__proto__", "__defineGetter__", "__defineSetter__",
             "__lookupGetter__", "__lookupSetter__"} |->
     [inherited |-> name,
      kind |-> IF name = "__proto__" THEN "object" ELSE "function",
      threw |-> IF name \in {"constructor", "toString", "isPrototypeOf",
                             "__proto__"}
                  THEN "none" ELSE "TypeError"]]

\* name in object: an own property or one inherited from Object.prototype
hasProperty(object, name) ==
  name \in DOMAIN object \/ name \in DOMAIN ObjectPrototype

\* get(fieldName?): without a field name the value of the field of the
\* definition, otherwise the stored value, otherwise the derived value.
\* Reading a name the field values do not hold themselves gives the
\* property inherited from Object.prototype, if there is one.
get(this, fieldName) ==
  LET name == IF fieldName = Undefined THEN this.definition.fieldName
              ELSE The(fieldName)
  IN IF name \in DOMAIN this.fieldValues
       THEN Some(this.fieldValues[name])
       ELSE IF name \in DOMAIN ObjectPrototype
         THEN Some(ObjectPrototype[name])
         ELSE Undefined

\* this.definition?.supportedFields && fieldName in
\* this.definition.supportedFields
supportsFieldName(this, fieldName) ==
  /\ this.definition.supportedFields # Undefined
  /\ hasProperty(The(this.definition.supportedFields), fieldName)

\* range(fieldName); an outcome with threw = "none" and no value is the
\* return of undefined.  A definer inherited from Object.prototype is
\* called when it is a function, and read for its range otherwise.  A
\* definer function of the definition compares the current value with its
\* own, which an inherited current value never equals.
range(this, fieldName) ==
  IF supportsFieldName(this, fieldName)
    THEN IF fieldName \in DOMAIN The(this.definition.supportedFields)
      THEN LET fieldDefiner ==
                 The(this.definition.supportedFields)[fieldName]
               current == IF this.definition.fieldName
                               \in DOMAIN this.fieldValues
                            THEN get(this, Undefined)
                            ELSE Undefined
               made == IF /\ current = Undefined
                          /\ get(this, Undefined) # Undefined
                         THEN Throw("RangeError")
                         ELSE fieldDefinitionFunction(fieldDefiner,
                                                      fieldName, current)
           IN IF fieldDefiner.kind = "function"
                THEN IF made.threw = "none"
                       THEN Return(The(made.value).range)
                       ELSE made
                ELSE Return(fieldDefiner.range)
      ELSE IF ObjectPrototype[fieldName].threw = "none"
        THEN [Return(fieldName) EXCEPT !.value = Undefined]
        ELSE ThrowWith("TypeError",
                       "Cannot convert undefined or null to object",
                       Undefined, Undefined)
    ELSE ThrowWith("UnsupportedFieldException", "Unsupported temporal field",
                   Some(fieldName), Undefined)

\* {...fieldValues, [key]: value}
withField(fieldValues, key, value) ==
  [name \in DOMAIN fieldValues \cup {key} |->
     IF name = key THEN value ELSE fieldValues[name]]

\* this.calendar.createInstance(bag), remembering the bag.
createInstanceFrom(cal, bag) ==
  [createInstance(cal, bag) EXCEPT !.passed = Some(bag)]

\* set writes the property named "fieldName" in the object literal.
set(this, cal, fieldName, value) ==
  IF supportsFieldName(this, fieldName)
    THEN LET valid == range(this, fieldName)
         IN IF valid.threw # "none" THEN valid
            ELSE IF valid.value = Undefined
              THEN ThrowWith("TypeError",
                             "Cannot read properties of undefined",
                             Undefined, Undefined)
            ELSE IF contains(The(valid.value), value)
              THEN createInstanceFrom(
                     cal, withField(this.fieldValues, "fieldName", value))
              ELSE ThrowWith("InvalidFieldValue", "does not allow value",
                             Undefined, Some(value))
    ELSE ThrowWith("UnsupportedFieldException", "Unsupported temporal field",
                   Some(fieldName), Undefined)

\* this.range(fieldName)?.contains(...): an undefined range counts as not
\* containing the value
derive(this, cal, fieldName, fieldValue) ==
  LET valid == range(this, fieldName)
  IN IF valid.threw # "none" THEN valid
     ELSE IF valid.value # Undefined
             /\ contains(The(valid.value), fieldValue)
       THEN createInstanceFrom(
              cal, withField(this.fieldValues, fieldName, fieldValue))
       ELSE ThrowWith("UnsupportedFieldException",
                      "Unsupported temporal field", Some(fieldName),
                      Undefined)

(***************************************************************************)
(* The resolution specification: Definitions.getField and                  *)
(* Calendar.createInstance on a field bag drawn by Init.                   *)
(***************************************************************************)
Bags ==
  UNION {[names -> FieldValues] : names \in SUBSET GenericFields}

CalendarNames == {"custom"}

CalendarOptions ==
  {Undefined,
   Some([offset |-> Undefined, startOfYear |-> Undefined]),
   Some([offset |-> Some([year |-> 1]),
         startOfYear |-> Some([day |-> 1, month |-> MaxFieldValue])])}

\* calendar = new <class>(calendarName, calendarOptions), unless it throws
NewCalendar ==
  \E class \in CalendarClasses, calendarName \in CalendarNames,
     calendarOptions \in CalendarOptions :
    LET outcome == Calendar(class, calendarName, calendarOptions)
    IN /\ calendar' = IF outcome.threw = "none" THEN outcome.value
                      ELSE calendar
       /\ call' = [op |-> "newCalendar", class |-> class,
                   calendarName |-> calendarName,
                   calendarOptions |-> calendarOptions,
                   threw |-> outcome.threw, ret |-> outcome.value]
       /\ UNCHANGED <<valueRange, fieldBag, calendarInstance,
                 calendarBuilder, callStack>>

\* Definitions.getField(fieldBag, baseField)
GetField ==
  \E baseField \in GenericFields :
    /\ call' = [op |-> "getField", fields |-> fieldBag,
                baseField |-> baseField,
                ret |-> getField(fieldBag, baseField)]
    /\ UNCHANGED <<valueRange, fieldBag, calendar, calendarInstance,
                 calendarBuilder, callStack>>

\* The index, among the nested declarations that carry an instance, of the
\* one the instance closure finds, 0 when it finds none.
findDeclaration(fields, baseField, allowedFields) ==
  LET instantiable == withInstance(allowedFields)
      matching == {i \in 1..Len(instantiable) :
                     hasField(fields, baseField, instantiable[i])}
  IN IF matching = {} THEN 0
     ELSE CHOOSE i \in matching : \A j \in matching : i <= j

\* calendar.createInstance(fieldBag)
CreateInstance ==
  /\ calendar # NoCalendar
  /\ LET outcome == createInstance(The(calendar), fieldBag)
         selected == selectDeclaration(fieldBag)
         field == InstanceDeclarations[selected]
         nested == The(field.allowedFields)
         found == IF selected # 0 /\ field.instance = "dispatch"
                    THEN findDeclaration(fieldBag, field.baseField, nested)
                    ELSE 0
     IN call' = [op |-> "createInstance", source |-> fieldBag,
                 selected |-> selected,
                 built |-> IF selected = 0 THEN Undefined
                           ELSE IF field.instance # "dispatch"
                             THEN Some(ShapeInstance(field.instance,
                                                     The(calendar),
                                                     fieldBag))
                           ELSE IF found = 0 THEN Undefined
                           ELSE Some(ShapeInstance(nested[found].instance,
                                                   The(calendar),
                                                   fieldBag)),
                 threw |-> outcome.threw, error |-> outcome.error,
                 ret |-> outcome.value]
  /\ UNCHANGED <<valueRange, fieldBag, calendar, calendarInstance,
                 calendarBuilder, callStack>>

\* A declaration a caller of createInstanceDeclaration can nest: the year
\* shape, reached through the actual fields of the base field year.
YearDeclaration ==
  [baseField |-> "year", allowedFields |-> <<"canonicalYear", "yearOfEra">>,
   instance |-> "YearInstance"]

NestedDeclarations ==
  {<<YearDeclaration>>, <<DateDeclaration, YearDeclaration>>,
   <<DateDeclaration, YearAndMonthDeclaration>>,
   <<[baseField |-> "day", allowedFields |-> <<"dayOfYear">>],
     YearDeclaration>>}

\* calendar.createInstanceDeclaration("year", nested).instance(calendar,
\* fieldBag); built is the outcome of the constructor the closure called
DeclarationInstance ==
  /\ calendar # NoCalendar
  /\ \E nested \in NestedDeclarations :
       LET found == findDeclaration(fieldBag, "year", nested)
           outcome == dispatchInstance(The(calendar), fieldBag, "year",
                                       nested)
       IN call' = [op |-> "declarationInstance", source |-> fieldBag,
                   nested |-> nested, found |-> found,
                   built |-> IF found = 0 THEN Undefined
                             ELSE Some(ShapeInstance(withInstance(nested)[found].instance,
                                                     The(calendar),
                                                     fieldBag)),
                   threw |-> outcome.threw, error |-> outcome.error,
                   ret |-> outcome.value]
  /\ UNCHANGED <<valueRange, fieldBag, calendar, calendarInstance,
                 calendarBuilder, callStack>>

\* new YearInstance / DateInstance / YearAndMonthInstance(calendar,
\* fieldBag) with the default allowed fields of the shape
NewShape ==
  /\ calendar # NoCalendar
  /\ \E shape \in Shapes :
       LET outcome == ShapeInstance(shape, The(calendar), fieldBag)
       IN call' = [op |-> "newShape", shape |-> shape, source |-> fieldBag,
                   threw |-> outcome.threw, error |-> outcome.error,
                   ret |-> outcome.value]
  /\ UNCHANGED <<valueRange, fieldBag, calendar, calendarInstance,
                 calendarBuilder, callStack>>

InitResolve ==
  /\ valueRange = NoRange
  /\ fieldBag \in Bags
  /\ calendar = NoCalendar
  /\ calendarInstance = NoInstance
  /\ calendarBuilder = Undefined
  /\ callStack = <<>>
  /\ call = NoCall

NextResolve ==
  \/ NewCalendar
  \/ GetField
  \/ CreateInstance
  \/ NewShape
  \/ DeclarationInstance

SpecResolve == InitResolve /\ [][NextResolve]_vars

(***************************************************************************)
(* The instance specification: range, set and derive on an instance made   *)
(* with new BasicCalendarInstance(calendar, definition, fieldValues).      *)
(***************************************************************************)
\* the names of calendar fields, and names an object inherits
FieldNames == {"day", "month", "hour", "toString", "hasOwnProperty",
               "__proto__"}

ClosedRanges == {closedRange(l, u) : l \in Boundaries, u \in Boundaries}

DefinitionDefiners ==
  {[kind |-> "definition", fieldName |-> "day", currentValue |-> 0,
    range |-> r] : r \in ClosedRanges}

FunctionDefiners ==
  {[kind |-> "function", fieldName |-> name, currentValue |-> 1,
    range |-> r] :
     name \in {"day", "month"},
     r \in {closedRange(Some(1), Some(MaxValue - 1)),
            closedRange(Undefined, Undefined)}}

SupportedFieldsOptions ==
  {Undefined, Some(EmptyRecord)}
    \cup {Some([day |-> d]) : d \in DefinitionDefiners \cup FunctionDefiners}
    \cup {Some([day |-> [kind |-> "definition", fieldName |-> "day",
                         currentValue |-> 0,
                         range |-> closedRange(Some(1), Some(MaxValue - 1))],
                month |-> m]) : m \in FunctionDefiners}

InstanceDefinitions ==
  {[fieldName |-> "day", range |-> closedRange(Some(1), Some(MaxValue - 1)),
    supportedFields |-> supported] : supported \in SupportedFieldsOptions}

InstanceBags ==
  {<<>>,
   <<Property("year", 1)>>,
   <<Property("year", 1), Property("day", MaxFieldValue)>>,
   <<Property("day", MaxFieldValue), Property("year", 1)>>}

\* calendarInstance = new BasicCalendarInstance(calendar, definition,
\* fieldValues), unless it throws
NewInstance ==
  /\ calendar # NoCalendar
  /\ \E definition \in InstanceDefinitions, fieldValues \in InstanceBags :
       LET outcome == BasicCalendarInstance("BasicCalendarInstance",
                                            The(calendar), definition,
                                            fieldValues)
       IN /\ calendarInstance' = IF outcome.threw = "none" THEN outcome.value
                                 ELSE calendarInstance
          /\ call' = [op |-> "newInstance", definition |-> definition,
                      fieldValues |-> fieldValues, threw |-> outcome.threw,
                      error |-> outcome.error, ret |-> outcome.value]
  /\ UNCHANGED <<valueRange, fieldBag, calendar, calendarBuilder, callStack>>

\* calendarInstance.range(fieldName)
Range ==
  /\ calendarInstance # NoInstance
  /\ \E fieldName \in FieldNames :
       LET outcome == range(The(calendarInstance), fieldName)
       IN call' = [op |-> "range", receiver |-> The(calendarInstance),
                   fieldName |-> fieldName, threw |-> outcome.threw,
                   error |-> outcome.error, ret |-> outcome.value]
  /\ UNCHANGED <<valueRange, fieldBag, calendar, calendarInstance,
                 calendarBuilder, callStack>>

\* calendarInstance.set(fieldName, value); the receiver keeps its fields
Set ==
  /\ calendarInstance # NoInstance
  /\ \E fieldName \in FieldNames, value \in Values :
       LET outcome == set(The(calendarInstance), The(calendar), fieldName,
                          value)
       IN call' = [op |-> "set", receiver |-> The(calendarInstance),
                   fieldName |-> fieldName, value |-> value,
                   valid |-> range(The(calendarInstance), fieldName),
                   threw |-> outcome.threw, error |-> outcome.error,
                   ret |-> outcome.value, passed |-> outcome.passed]
  /\ UNCHANGED <<valueRange, fieldBag, calendar, calendarInstance,
                 calendarBuilder, callStack>>

\* calendarInstance.derive(fieldName, value)
Derive ==
  /\ calendarInstance # NoInstance
  /\ \E fieldName \in FieldNames, value \in Values :
       LET outcome == derive(The(calendarInstance), The(calendar), fieldName,
                             value)
       IN call' = [op |-> "derive", receiver |-> The(calendarInstance),
                   fieldName |-> fieldName, value |-> value,
                   valid |-> range(The(calendarInstance), fieldName),
                   threw |-> outcome.threw, error |-> outcome.error,
                   ret |-> outcome.value, passed |-> outcome.passed]
  /\ UNCHANGED <<valueRange, fieldBag, calendar, calendarInstance,
                 calendarBuilder, callStack>>

FieldStructures ==
  {<<>>, YearStructure, DateStructure, YearAndMonthStructure}

\* BasicCalendarInstance.composeAllowedFields(fieldStruct)
ComposeAllowedFields ==
  \E fieldStruct \in FieldStructures :
    /\ call' = [op |-> "composeAllowedFields", fieldStruct |-> fieldStruct,
                ret |-> composeAllowedFields(fieldStruct)]
    /\ UNCHANGED <<valueRange, fieldBag, calendar, calendarInstance,
                 calendarBuilder, callStack>>

InitInstance ==
  /\ valueRange = NoRange
  /\ fieldBag = NoFieldBag
  /\ calendar = NoCalendar
  /\ calendarInstance = NoInstance
  /\ calendarBuilder = Undefined
  /\ callStack = <<>>
  /\ call = NoCall

NextInstance ==
  \/ NewCalendar
  \/ NewInstance
  \/ Range
  \/ Set
  \/ Derive
  \/ ComposeAllowedFields

SpecInstance == InitInstance /\ [][NextInstance]_vars

(***************************************************************************)
(* VagueValueRange.ts: VagueValueRange<ComparableInteger>, a ValueRange    *)
(* whose boundaries are ranges (the envelopes).                            *)
(***************************************************************************)
VagueValueRange(lowerBoundary, upperBoundary, includeLower, includeUpper) ==
  ValueRange(lowerBoundary, upperBoundary, includeLower, includeUpper)

\* A boundary given to create: undefined, a range or a scalar.
RangeBoundary(r) == [isRange |-> TRUE, range |-> r, scalar |-> 0]

ScalarBoundary(v) == [isRange |-> FALSE, range |-> NoRange, scalar |-> v]

createBoundary(boundary) ==
  IF boundary = Undefined THEN Undefined
  ELSE IF The(boundary).isRange THEN Some(The(boundary).range)
  ELSE Some(closedRange(Some(The(boundary).scalar),
                        Some(The(boundary).scalar)))

create(lowerBoundary, upperBoundary, includeLower, includeUpper) ==
  VagueValueRange(createBoundary(lowerBoundary), createBoundary(upperBoundary),
                  includeLower, includeUpper)

getBoundaryMinimum(boundary) ==
  IF boundary # Undefined /\ hasLowerBoundary(The(boundary))
    THEN Some(Returned(getLowerBoundary(The(boundary))))
    ELSE Undefined

getBoundaryMaximum(boundary) ==
  IF boundary # Undefined /\ hasUpperBoundary(The(boundary))
    THEN Some(Returned(getUpperBoundary(The(boundary))))
    ELSE Undefined

minimalLowerBoundary(this) ==
  IF hasLowerBoundary(this)
    THEN getBoundaryMinimum(Some(Returned(getLowerBoundary(this))))
    ELSE Undefined

maximalLowerBoundary(this) ==
  IF hasLowerBoundary(this)
    THEN getBoundaryMaximum(Some(Returned(getLowerBoundary(this))))
    ELSE Undefined

minmalUpperBoundary(this) ==
  IF hasUpperBoundary(this)
    THEN getBoundaryMinimum(Some(Returned(getUpperBoundary(this))))
    ELSE Undefined

maximalUpperBoundary(this) ==
  IF hasUpperBoundary(this)
    THEN getBoundaryMaximum(Some(Returned(getUpperBoundary(this))))
    ELSE Undefined

\* ValueRange.contains of a range of ranges: the boundaries are compared
\* with ValueRange.compareTo.
containsRange(this, value) ==
  /\ \/ this.lowerBoundary = Undefined
     \/ NumGeq(valueOf(compareTo(Returned(getLowerBoundary(this)), value)),
               Num(IF this.includesLowerBoundary THEN 0 ELSE 1))
  /\ \/ this.upperBoundary = Undefined
     \/ NumLeq(valueOf(compareTo(Returned(getUpperBoundary(this)), value)),
               Num(IF this.includesUpperBoundary THEN 0 ELSE 0 - 1))

\* VagueValueRange.contains of a scalar.
vagueContains(this, value) ==
  containsRange(this, closedRange(Some(value), Some(value)))

\* The expansions return a range or pass on the error of ValueRange.expand.
expandLowerBoundaryValue(this, lowerBoundaryValue) ==
  IF hasLowerBoundary(this)
    THEN IF lowerBoundaryValue = Undefined
           THEN Return(create(
                  Some(RangeBoundary(expandLowerBoundary(
                         Returned(getLowerBoundary(this)), lowerBoundaryValue))),
                  IF hasUpperBoundary(this)
                    THEN Some(RangeBoundary(Returned(getUpperBoundary(this))))
                    ELSE Undefined,
                  this.includesLowerBoundary, this.includesUpperBoundary))
           ELSE LET expanded == expand(Returned(getLowerBoundary(this)),
                                       The(lowerBoundaryValue))
                IN IF expanded.threw # "none" THEN expanded
                   ELSE Return(create(
                          Some(RangeBoundary(The(expanded.value))),
                          IF hasUpperBoundary(this)
                            THEN Some(RangeBoundary(Returned(getUpperBoundary(this))))
                            ELSE Undefined,
                          this.includesLowerBoundary,
                          this.includesUpperBoundary))
    ELSE Return(this)

expandUpperBoundaryValue(this, upperBoundaryValue) ==
  IF hasUpperBoundary(this)
    THEN IF upperBoundaryValue = Undefined
           THEN Return(create(
                  IF hasLowerBoundary(this)
                    THEN Some(RangeBoundary(Returned(getLowerBoundary(this))))
                    ELSE Undefined,
                  Some(RangeBoundary(expandUpperBoundary(
                         Returned(getUpperBoundary(this)), upperBoundaryValue))),
                  this.includesLowerBoundary, this.includesUpperBoundary))
           ELSE LET expanded == expand(Returned(getUpperBoundary(this)),
                                       The(upperBoundaryValue))
                IN IF expanded.threw # "none" THEN expanded
                   ELSE Return(create(
                          IF hasLowerBoundary(this)
                            THEN Some(RangeBoundary(Returned(getLowerBoundary(this))))
                            ELSE Undefined,
                          Some(RangeBoundary(The(expanded.value))),
                          this.includesLowerBoundary,
                          this.includesUpperBoundary))
    ELSE Return(this)

\* VagueValueRange.expandLowerBoundary / expandUpperBoundary.  The argument
\* is undefined, a range or, against the declared type, a scalar: a scalar
\* is neither an instance of ValueRange nor undefined and falls through to
\* the final return.
vagueExpandLowerBoundary(this, lowerBoundary) ==
  IF hasLowerBoundary(this)
    THEN IF lowerBoundary # Undefined /\ The(lowerBoundary).isRange
           THEN VagueValueRange(
                  Some(expandUpperBoundary(
                         expandLowerBoundary(
                           Returned(getLowerBoundary(this)),
                           The(lowerBoundary).range.lowerBoundary),
                         The(lowerBoundary).range.upperBoundary)),
                  this.upperBoundary, this.includesLowerBoundary,
                  this.includesUpperBoundary)
         ELSE IF lowerBoundary = Undefined
           THEN VagueValueRange(Undefined, this.upperBoundary,
                                this.includesLowerBoundary,
                                this.includesUpperBoundary)
         ELSE this
    ELSE this

vagueExpandUpperBoundary(this, upperBoundary) ==
  IF hasUpperBoundary(this)
    THEN IF upperBoundary # Undefined /\ The(upperBoundary).isRange
           THEN VagueValueRange(
                  this.lowerBoundary,
                  Some(expandUpperBoundary(
                         expandLowerBoundary(
                           Returned(getUpperBoundary(this)),
                           The(upperBoundary).range.lowerBoundary),
                         The(upperBoundary).range.upperBoundary)),
                  this.includesLowerBoundary, this.includesUpperBoundary)
         ELSE IF upperBoundary = Undefined
           THEN VagueValueRange(this.lowerBoundary, Undefined,
                                this.includesLowerBoundary,
                                this.includesUpperBoundary)
         ELSE this
    ELSE this

(***************************************************************************)
(* calendar.ts: the range factories and ISOCalendar.createFieldDefinition. *)
(* An argument that may be undefined, null or a number is a tagged record. *)
(***************************************************************************)
JsUndefined == [tag |-> "undefined", v |-> 0]

JsNull == [tag |-> "null", v |-> 0]

JsNumber(i) == [tag |-> "number", v |-> i]

\* defaultValue is a JavaScript value too; null never reaches it.
toComparableInteger(value, defaultValue) ==
  IF value = JsNull THEN Undefined
  ELSE IF value = JsUndefined
    THEN IF defaultValue = JsUndefined THEN Undefined
         ELSE Some(defaultValue.v)
  ELSE Some(value.v)

\* createValueRange(lowerBoundary, upperBoundary) with the default lower
\* boundary 1 and the default upper boundary null.
createValueRange(lowerBoundary, upperBoundary) ==
  closedRange(toComparableInteger(lowerBoundary, JsNumber(1)),
              toComparableInteger(upperBoundary, JsUndefined))

\* The envelope ISOCalendar.createFieldDefinition hands to both boundaries
\* of the vague range.
isoEnvelope(minValue, smallestMinValue) ==
  IF smallestMinValue = JsUndefined
    THEN IF minValue = JsNull THEN Undefined
         ELSE Some(createValueRange(minValue, minValue))
    ELSE Some(createValueRange(smallestMinValue, minValue))

ISOCalendarCreateFieldDefinition(fieldName, maxValue, minValue, largestMaxValue, smallestMinValue) ==
  IF /\ smallestMinValue.tag = "number"
     /\ \/ minValue = JsNull
        \/ (IF minValue = JsUndefined THEN 1 ELSE minValue.v)
             < smallestMinValue.v
    THEN Throw("RangeError")
  ELSE IF /\ largestMaxValue.tag = "number"
          /\ \/ maxValue = JsUndefined
             \/ maxValue.v > largestMaxValue.v
    THEN Throw("RangeError")
  ELSE IF largestMaxValue = JsUndefined /\ smallestMinValue = JsUndefined
    THEN Return([fieldName |-> fieldName, isVague |-> FALSE,
                 range |-> closedRange(
                             toComparableInteger(minValue, JsUndefined),
                             toComparableInteger(maxValue, JsUndefined))])
  ELSE Return([fieldName |-> fieldName, isVague |-> TRUE,
               range |-> VagueValueRange(
                           isoEnvelope(minValue, smallestMinValue),
                           isoEnvelope(minValue, smallestMinValue),
                           TRUE, TRUE)])

\* The dayOfYear entry of ISOCalendar.supportedFields.
DaysInYear == 365

DaysInLeapYear == 366

ISODayOfYear ==
  ISOCalendarCreateFieldDefinition("dayOfYear", JsNumber(DaysInYear),
                                   JsNumber(1), JsNumber(DaysInLeapYear),
                                   JsUndefined)

(***************************************************************************)
(* The vague range specification: valueRange holds a VagueValueRange.      *)
(***************************************************************************)
EnvelopeValues == 0..MaxEnvelope

EnvelopeBoundaries == {Undefined} \cup {Some(v) : v \in EnvelopeValues}

Envelopes ==
  {Undefined}
    \cup {Some(closedRange(l, u)) :
            l \in EnvelopeBoundaries, u \in EnvelopeBoundaries}

VagueRanges ==
  {VagueValueRange(l, u, il, iu) :
     l \in Envelopes, u \in Envelopes, il \in BOOLEAN, iu \in BOOLEAN}

ScalarBoundaries ==
  {Undefined} \cup {Some(ScalarBoundary(v)) : v \in EnvelopeValues}

JsIntegers == {JsNumber(v) : v \in EnvelopeValues}

\* valueRange = VagueValueRange.create(lower, upper, includeLower,
\* includeUpper) with scalar or undefined boundaries
Create ==
  \E lower \in ScalarBoundaries, upper \in ScalarBoundaries,
     includeLower \in BOOLEAN, includeUpper \in BOOLEAN :
    LET created == create(lower, upper, includeLower, includeUpper)
    IN /\ valueRange' = created
       /\ call' = [op |-> "create", ret |-> created]
       /\ UNCHANGED <<fieldBag, calendar, calendarInstance,
                 calendarBuilder, callStack>>

\* valueRange.contains(value) with a scalar
VagueContains ==
  \E value \in Values :
    /\ call' = [op |-> "contains", receiver |-> valueRange, arg |-> value,
                ret |-> vagueContains(valueRange, value)]
    /\ UNCHANGED <<valueRange, fieldBag, calendar, calendarInstance,
                 calendarBuilder, callStack>>

\* The arguments of the boundary expansions: undefined, an envelope or a
\* scalar.
ExpansionBoundaries ==
  ScalarBoundaries
    \cup {Some(RangeBoundary(The(e))) : e \in Envelopes \ {Undefined}}

\* valueRange = valueRange.expandLowerBoundary(boundary) or
\* valueRange.expandUpperBoundary(boundary)
VagueExpandBoundary ==
  \E side \in {"lower", "upper"}, boundary \in ExpansionBoundaries :
    LET expanded == IF side = "lower"
                      THEN vagueExpandLowerBoundary(valueRange, boundary)
                      ELSE vagueExpandUpperBoundary(valueRange, boundary)
    IN /\ call' = [op |-> "expandBoundary", side |-> side,
                   receiver |-> valueRange, arg |-> boundary,
                   ret |-> expanded]
       /\ valueRange' = expanded
       /\ UNCHANGED <<fieldBag, calendar, calendarInstance,
                 calendarBuilder, callStack>>

\* valueRange = valueRange.expandLowerBoundaryValue(value) or
\* valueRange.expandUpperBoundaryValue(value), unless it throws
VagueExpandBoundaryValue ==
  \E side \in {"lower", "upper"},
     value \in {Undefined} \cup {Some(v) : v \in Values} :
    LET outcome == IF side = "lower"
                     THEN expandLowerBoundaryValue(valueRange, value)
                     ELSE expandUpperBoundaryValue(valueRange, value)
    IN /\ call' = [op |-> "expandBoundaryValue", side |-> side,
                   receiver |-> valueRange, arg |-> value,
                   threw |-> outcome.threw, ret |-> outcome.value]
       /\ valueRange' = IF outcome.threw = "none" THEN The(outcome.value)
                        ELSE valueRange
       /\ UNCHANGED <<fieldBag, calendar, calendarInstance,
                 calendarBuilder, callStack>>

\* Init: valueRange = new VagueValueRange(lower, upper, includeLower,
\* includeUpper); the constructor stores any two envelopes.
InitVague ==
  /\ valueRange \in VagueRanges
  /\ fieldBag = NoFieldBag
  /\ calendar = NoCalendar
  /\ calendarInstance = NoInstance
  /\ calendarBuilder = Undefined
  /\ callStack = <<>>
  /\ call = NoCall

NextVague ==
  \/ Create
  \/ VagueContains
  \/ VagueExpandBoundary
  \/ VagueExpandBoundaryValue

SpecVague == InitVague /\ [][NextVague]_vars

(***************************************************************************)
(* The factory specification: the field definitions                       *)
(* ISOCalendar.createFieldDefinition makes.                                *)
(***************************************************************************)
\* ISOCalendar.createFieldDefinition(fieldName, maxValue, minValue,
\* largestMaxValue, smallestMinValue); valueRange becomes the range of the
\* definition when it is a vague range
CreateFieldDefinition ==
  \E maxValue \in {JsUndefined} \cup JsIntegers,
     minValue \in {JsUndefined, JsNull} \cup JsIntegers,
     largestMaxValue \in {JsUndefined, JsNull, JsNumber(MaxEnvelope)},
     smallestMinValue \in {JsUndefined, JsNull} \cup JsIntegers :
    LET outcome == ISOCalendarCreateFieldDefinition(
                     "dayOfYear", maxValue, minValue, largestMaxValue,
                     smallestMinValue)
    IN /\ call' = [op |-> "createFieldDefinition", maxValue |-> maxValue,
                   minValue |-> minValue,
                   largestMaxValue |-> largestMaxValue,
                   smallestMinValue |-> smallestMinValue,
                   threw |-> outcome.threw, ret |-> outcome.value]
       /\ valueRange' = IF outcome.threw = "none"
                             /\ The(outcome.value).isVague
                          THEN The(outcome.value).range
                          ELSE valueRange
       /\ UNCHANGED <<fieldBag, calendar, calendarInstance,
                 calendarBuilder, callStack>>

InitFactory ==
  /\ valueRange = NoRange
  /\ fieldBag = NoFieldBag
  /\ calendar = NoCalendar
  /\ calendarInstance = NoInstance
  /\ calendarBuilder = Undefined
  /\ callStack = <<>>
  /\ call = NoCall

NextFactory == CreateFieldDefinition

SpecFactory == InitFactory /\ [][NextFactory]_vars

(***************************************************************************)
(* The builder specification: FieldBuilder and CalendarBuilder.  A call    *)
(* in progress is the sequence callStack of its frames, the innermost      *)
(* last; call.done tells whether the outermost call has finished.          *)
(***************************************************************************)
\* a frame of the call stack
Frame(fn, fieldName) == [fn |-> fn, fieldName |-> fieldName]

\* new CalendarBuilder(calendarName, fields, isImmutable): the constructor
\* never reads fields, and immutable is isImmutable == true
CalendarBuilder(calendarName, fields, isImmutable) ==
  [calendarName |-> calendarName,
   immutable |-> (isImmutable = Some(TRUE)),
   fields |-> EmptyRecord]

\* builder.addSupportedField(fieldName), given the outcome of the
\* new FieldBuilder(fieldName) it evaluates when the field is not supported
\* yet; value is [this, ret], the receiver afterwards and the builder
\* returned
addSupportedField(builder, fieldName, created) ==
  IF fieldName \notin DOMAIN builder.fields
  THEN IF created.threw # "none"
       THEN created
       ELSE IF builder.immutable
            THEN Return([this |-> builder,
                         ret |-> CalendarBuilder(builder.calendarName,
                                   Some([f \in DOMAIN builder.fields
                                            \cup {fieldName} |->
                                          IF f = fieldName
                                          THEN The(created.value)
                                          ELSE builder.fields[f]]),
                                   Undefined)])
            ELSE LET changed ==
                       [builder EXCEPT !.fields =
                          [f \in DOMAIN builder.fields \cup {fieldName} |->
                             IF f = fieldName THEN The(created.value)
                             ELSE builder.fields[f]]]
                 IN Return([this |-> changed, ret |-> changed])
  ELSE Return([this |-> builder, ret |-> builder])

\* calendarBuilder = new CalendarBuilder(calendarName, fields, isImmutable)
NewCalendarBuilder ==
  /\ callStack = <<>>
  /\ \E calendarName \in CalendarNames,
        fields \in {Undefined, Some(EmptyRecord)},
        isImmutable \in {Undefined, Some(FALSE), Some(TRUE)} :
       /\ calendarBuilder' =
            Some(CalendarBuilder(calendarName, fields, isImmutable))
       /\ call' = [op |-> "newCalendarBuilder",
                   calendarName |-> calendarName, fields |-> fields,
                   isImmutable |-> isImmutable, done |-> TRUE,
                   threw |-> "none"]
  /\ UNCHANGED <<valueRange, fieldBag, calendar, calendarInstance, callStack>>

\* new FieldBuilder(fieldName) is called
NewFieldBuilder ==
  /\ callStack = <<>>
  /\ \E fieldName \in FieldNames :
       /\ callStack' = <<Frame("FieldBuilder", fieldName)>>
       /\ call' = [op |-> "newFieldBuilder", fieldName |-> fieldName,
                   done |-> FALSE, threw |-> "none", ret |-> Undefined]
  /\ UNCHANGED <<valueRange, fieldBag, calendar, calendarInstance,
                 calendarBuilder>>

\* calendarBuilder.addSupportedField(fieldName) is called: a supported
\* field returns the receiver at once, any other field has the call
\* evaluate new FieldBuilder(fieldName) first
AddSupportedField ==
  /\ callStack = <<>>
  /\ calendarBuilder # Undefined
  /\ \E fieldName \in FieldNames :
       LET builder == The(calendarBuilder)
       IN IF fieldName \in DOMAIN builder.fields
          THEN LET outcome == addSupportedField(builder, fieldName,
                                                Return(Undefined))
               IN /\ callStack' = callStack
                  /\ call' = [op |-> "addSupportedField",
                              receiver |-> builder, fieldName |-> fieldName,
                              done |-> TRUE, threw |-> "none",
                              ret |-> Some(The(outcome.value).ret)]
          ELSE /\ callStack' = <<Frame("addSupportedField", fieldName),
                                 Frame("FieldBuilder", fieldName)>>
               /\ call' = [op |-> "addSupportedField",
                           receiver |-> builder, fieldName |-> fieldName,
                           done |-> FALSE, threw |-> "none",
                           ret |-> Undefined]
  /\ UNCHANGED <<valueRange, fieldBag, calendar, calendarInstance,
                 calendarBuilder>>

\* the innermost FieldBuilder constructor runs up to its last statement:
\* it sets fieldName, values and an empty supportedFields, then calls
\* new FieldBuilder(fieldName).  The statement has no condition, so a
\* constructor frame never gets to return.
FieldBuilderConstructor ==
  /\ callStack # <<>>
  /\ callStack[Len(callStack)].fn = "FieldBuilder"
  /\ Len(callStack) < MaxCallStack
  /\ callStack' = Append(callStack,
                         Frame("FieldBuilder",
                               callStack[Len(callStack)].fieldName))
  /\ UNCHANGED <<valueRange, fieldBag, calendar, calendarInstance,
                 calendarBuilder, call>>

\* the call stack is full: the host throws RangeError in place of the next
\* call, no frame catches it, and the outermost call ends with the error
StackOverflow ==
  /\ Len(callStack) = MaxCallStack
  /\ callStack' = <<>>
  /\ call' = [call EXCEPT !.done = TRUE, !.threw = "RangeError"]
  /\ calendarBuilder' =
       IF call.op = "addSupportedField"
       THEN LET outcome == addSupportedField(call.receiver, call.fieldName,
                                             Throw("RangeError"))
            IN IF outcome.threw = "none"
               THEN Some(The(outcome.value).this)
               ELSE calendarBuilder
       ELSE calendarBuilder
  /\ UNCHANGED <<valueRange, fieldBag, calendar, calendarInstance>>

InitBuilder ==
  /\ valueRange = NoRange
  /\ fieldBag = NoFieldBag
  /\ calendar = NoCalendar
  /\ calendarInstance = NoInstance
  /\ calendarBuilder = Undefined
  /\ callStack = <<>>
  /\ call = NoCall

NextBuilder ==
  \/ NewCalendarBuilder
  \/ NewFieldBuilder
  \/ AddSupportedField
  \/ FieldBuilderConstructor
  \/ StackOverflow

SpecBuilder == InitBuilder /\ [][NextBuilder]_vars

(***************************************************************************)
(* Properties.                                                             *)
(***************************************************************************)
\* The boundary rule of containment: v is not below the lower boundary and
\* not above the upper boundary, a boundary value belonging to the range
\* when its inclusivity flag is set.
WithinBoundaries(r, v) ==
  /\ \/ r.lowerBoundary = Undefined
     \/ v > The(r.lowerBoundary)
     \/ v = The(r.lowerBoundary) /\ r.includesLowerBoundary
  /\ \/ r.upperBoundary = Undefined
     \/ v < The(r.upperBoundary)
     \/ v = The(r.upperBoundary) /\ r.includesUpperBoundary

\* C1: R.contains(v) is true iff (R has no lower boundary, or v > lower, or
\* v = lower and includesLowerBoundary) and (R has no upper boundary, or
\* v < upper, or v = upper and includesUpperBoundary).
C1_ContainsIffWithinBoundaries ==
  call.op = "contains" =>
    (call.ret <=> WithinBoundaries(call.receiver, call.arg))

\* The value get(name) returns on a created instance.
CreatedValue(name) == get(The(call.ret), Some(name))

\* C2: createInstance on a bag holding year, month and day returns a
\* DateInstance whose get("year") and get("month") are the supplied values
\* and whose day field resolves to dayOfMonth.
C2_DateFromYearMonthDay ==
  (call.op = "createInstance"
     /\ DOMAIN call.source = {"year", "month", "day"}) =>
    /\ call.threw = "none"
    /\ The(call.ret).shape = "DateInstance"
    /\ CreatedValue("year") = Some(call.source["year"])
    /\ CreatedValue("month") = Some(call.source["month"])
    /\ getField(call.source, "day") = Some("dayOfMonth")

\* The shape createInstance returned, "none" when it threw.
CreatedShape == IF call.threw = "none" THEN The(call.ret).shape ELSE "none"

\* C3: createInstance selects the most specific matching shape: year and
\* day give a DateInstance, year and month without day a
\* YearAndMonthInstance, year alone a YearInstance.
C3_MostSpecificShape ==
  (call.op = "createInstance"
     /\ DOMAIN call.source \subseteq {"year", "month", "day"}) =>
    /\ {"year", "day"} \subseteq DOMAIN call.source =>
         CreatedShape = "DateInstance"
    /\ DOMAIN call.source = {"year", "month"} =>
         CreatedShape = "YearAndMonthInstance"
    /\ DOMAIN call.source = {"year"} => CreatedShape = "YearInstance"

\* The rows of the field-presence priority table: the base field, the
\* companion that must be present, the companions that must be absent and
\* the resolved field.
PriorityTable ==
  {[base |-> "day", present |-> {"week"}, absent |-> {},
    field |-> "dayOfWeek"],
   [base |-> "day", present |-> {"month"}, absent |-> {"week"},
    field |-> "dayOfMonth"],
   [base |-> "day", present |-> {"year"}, absent |-> {"week", "month"},
    field |-> "dayOfYear"],
   [base |-> "year", present |-> {"era"}, absent |-> {},
    field |-> "yearOfEra"],
   [base |-> "year", present |-> {}, absent |-> {"era"},
    field |-> "canonicalYear"],
   [base |-> "month", present |-> {"quarter"}, absent |-> {},
    field |-> "monthOfQuarter"],
   [base |-> "month", present |-> {"year"}, absent |-> {"quarter"},
    field |-> "monthOfYear"],
   [base |-> "quarter", present |-> {"year"}, absent |-> {},
    field |-> "quarterOfYear"],
   [base |-> "week", present |-> {"month"}, absent |-> {},
    field |-> "weekOfMonth"],
   [base |-> "week", present |-> {"year"}, absent |-> {"month"},
    field |-> "weekOfYear"],
   [base |-> "era", present |-> {}, absent |-> {}, field |-> "era"]}

\* The fields the table resolves a base field of a bag to: none when the
\* base field is absent or no row applies.
TableFields(bag, base) ==
  {row.field : row \in {r \in PriorityTable :
                          /\ r.base = base
                          /\ base \in DOMAIN bag
                          /\ r.present \subseteq DOMAIN bag
                          /\ r.absent \cap DOMAIN bag = {}}}

\* C4: getField(bag, b) is undefined when b is absent from the bag and
\* otherwise the field the priority table gives.
C4_GetFieldFollowsPriorityTable ==
  call.op = "getField" =>
    call.ret = TableFields(call.fields, call.baseField)

\* C4 witness: a bag with day, month and year but no week resolved day to
\* dayOfMonth.
C4_Witness ==
  /\ call.op = "getField"
  /\ call.baseField = "day"
  /\ {"day", "month", "year"} \subseteq DOMAIN call.fields
  /\ "week" \notin DOMAIN call.fields
  /\ call.ret = Some("dayOfMonth")

\* C5: whenever R.expand(v) returns a range instead of throwing, the
\* returned range contains v (by its own contains or by the boundary rule).
C5_ExpandedRangeContainsValue ==
  (call.op = "expand" /\ call.threw = "none") =>
    \/ contains(The(call.ret), call.arg)
    \/ WithinBoundaries(The(call.ret), call.arg)

\* The order compareTo is claimed to implement: A is lesser than B.
LowerTie(a, b) ==
  /\ a.lowerBoundary = b.lowerBoundary
  /\ a.includesLowerBoundary = b.includesLowerBoundary

ClaimedLesser(a, b) ==
  \/ a.lowerBoundary = Undefined /\ b.lowerBoundary # Undefined
  \/ /\ a.lowerBoundary # Undefined
     /\ b.lowerBoundary # Undefined
     /\ \/ The(a.lowerBoundary) < The(b.lowerBoundary)
        \/ /\ The(a.lowerBoundary) = The(b.lowerBoundary)
           /\ a.includesLowerBoundary
           /\ ~b.includesLowerBoundary
        \/ /\ LowerTie(a, b)
           /\ \/ a.upperBoundary # Undefined /\ b.upperBoundary = Undefined
              \/ /\ a.upperBoundary # Undefined
                 /\ b.upperBoundary # Undefined
                 /\ \/ The(a.upperBoundary) < The(b.upperBoundary)
                    \/ /\ The(a.upperBoundary) = The(b.upperBoundary)
                       /\ ~a.includesUpperBoundary
                       /\ b.includesUpperBoundary

\* C6: compareTo orders ranges by lower boundary first and upper boundary
\* second: it reports lesser whenever the receiver precedes the argument
\* in that order, and greater whenever the argument precedes the receiver.
C6_CompareToOrdersByBoundaries ==
  call.op = "compareTo" =>
    /\ ClaimedLesser(call.receiver, call.arg) => call.ret.isLesser
    /\ ClaimedLesser(call.arg, call.receiver) => call.ret.isGreater

\* The range a set or derive call validated the value against.
ValidatedRange == The(call.valid.value)

\* The definition of the instance lists the field among its supported
\* fields.
DeclaresField(instance, fieldName) ==
  /\ instance.definition.supportedFields # Undefined
  /\ fieldName \in DOMAIN The(instance.definition.supportedFields)

\* The value of a set or derive call is outside the range of the field,
\* by the boundary rule and by the range's own contains.
ValueOutsideRange ==
  /\ call.op \in {"set", "derive"}
  /\ DeclaresField(call.receiver, call.fieldName)
  /\ call.valid.threw = "none"
  /\ ~WithinBoundaries(ValidatedRange, call.value)
  /\ ~contains(ValidatedRange, call.value)

\* The value of a set call is inside the range of the field, by the
\* boundary rule and by the range's own contains.
SetValueInsideRange ==
  /\ call.op = "set"
  /\ DeclaresField(call.receiver, call.fieldName)
  /\ call.valid.threw = "none"
  /\ WithinBoundaries(ValidatedRange, call.value)
  /\ contains(ValidatedRange, call.value)

\* C7: set(f, v) and derive(f, v) on a supported field f with v outside
\* range(f) both fail with InvalidFieldValue carrying v, and no new
\* instance is produced.
C7_OutsideRangeIsInvalidFieldValue ==
  ValueOutsideRange =>
    /\ call.threw = "InvalidFieldValue"
    /\ call.error.value = Some(call.value)
    /\ call.ret = Undefined

\* C8: set(f, v) on a supported field f with v inside range(f) hands the
\* calendar the receiver's field values with exactly the field f
\* overridden to v, and leaves the receiver unmodified.
C8_SetOverridesNamedField ==
  SetValueInsideRange =>
    /\ call.passed # Undefined
    /\ DOMAIN The(call.passed)
         = DOMAIN call.receiver.fieldValues \cup {call.fieldName}
    /\ The(call.passed)[call.fieldName] = call.value
    /\ \A name \in DOMAIN call.receiver.fieldValues \ {call.fieldName} :
         The(call.passed)[name] = call.receiver.fieldValues[name]
    /\ calendarInstance = Some(call.receiver)

\* C9: range(f), set(f, v) and derive(f, v) with a field name f that is not
\* among the supported fields of the instance fail with an
\* UnsupportedFieldException whose fieldName is f; nothing is returned.
C9_UnsupportedFieldIsSignalled ==
  (call.op \in {"range", "set", "derive"}
     /\ ~DeclaresField(call.receiver, call.fieldName)) =>
    /\ call.threw = "UnsupportedFieldException"
    /\ call.error.field = Some(call.fieldName)
    /\ call.ret = Undefined

\* C10: createInstance on a bag that matches no instance declaration, as
\* every bag without a year field does, fails with a CalendarException and
\* returns no instance.
C10_NoMatchIsCalendarException ==
  call.op = "createInstance" =>
    /\ "year" \notin DOMAIN call.source => call.selected = 0
    /\ call.selected = 0 =>
         /\ call.threw = "CalendarException"
         /\ call.error.message = "The calendar instance does not exist"
         /\ call.ret = Undefined

\* C10 witness: createInstance on a bag with month and day but no year
\* threw the CalendarException.
C10_Witness ==
  /\ call.op = "createInstance"
  /\ DOMAIN call.source = {"month", "day"}
  /\ call.selected = 0
  /\ call.threw = "CalendarException"

\* The required field paths of a shape are satisfiable from a source: each
\* base field of the shape is present and resolves to one of its alternatives.
ResolvesTo(source, base, alternatives) ==
  /\ getField(source, base) # Undefined
  /\ The(getField(source, base)) \in alternatives

PathSatisfied(shape, source) ==
  CASE shape = "YearInstance" ->
         ResolvesTo(source, "year", {"canonicalYear", "yearOfEra"})
    [] shape = "DateInstance" ->
         /\ ResolvesTo(source, "year", {"canonicalYear", "yearOfEra"})
         /\ ResolvesTo(source, "day", {"dayOfMonth", "dayOfYear"})
    [] shape = "YearAndMonthInstance" ->
         /\ "year" \in DOMAIN source
         /\ ResolvesTo(source, "month", {"monthOfYear"})

\* C11: constructing a DateInstance, YearAndMonthInstance or YearInstance
\* from a source succeeds when the source satisfies a required field path
\* of the shape, and fails with a RangeError exactly when no required field
\* path is satisfiable.
C11_ShapeBuiltIffPathSatisfied ==
  call.op = "newShape" =>
    /\ PathSatisfied(call.shape, call.source) => call.threw = "none"
    /\ ~PathSatisfied(call.shape, call.source) => call.threw = "RangeError"

\* All four envelope bounds of a vague range are defined.
EnvelopeDefined(r) ==
  /\ minimalLowerBoundary(r) # Undefined
  /\ maximalLowerBoundary(r) # Undefined
  /\ minmalUpperBoundary(r) # Undefined
  /\ maximalUpperBoundary(r) # Undefined

EnvelopeOrdered(r) ==
  /\ The(minimalLowerBoundary(r)) <= The(maximalLowerBoundary(r))
  /\ The(maximalLowerBoundary(r)) <= The(minmalUpperBoundary(r))
  /\ The(minmalUpperBoundary(r)) <= The(maximalUpperBoundary(r))

\* C12: every VagueValueRange produced by the constructor, by create, by
\* ISOCalendar.createFieldDefinition or by a sequence of boundary
\* expansions satisfies minimalLowerBoundary <= maximalLowerBoundary <=
\* minimalUpperBoundary <= maximalUpperBoundary whenever all four are
\* defined.
C12_VagueEnvelopesOrdered ==
  EnvelopeDefined(valueRange) => EnvelopeOrdered(valueRange)

\* v lies inside the narrowest guaranteed range of a vague range: between
\* the maximal lower and the minimal upper boundary, strictly on a side
\* whose inclusivity flag is false.
InsideNarrowest(r, v) ==
  /\ \/ The(maximalLowerBoundary(r)) < v
     \/ The(maximalLowerBoundary(r)) = v /\ r.includesLowerBoundary
  /\ \/ v < The(minmalUpperBoundary(r))
     \/ v = The(minmalUpperBoundary(r)) /\ r.includesUpperBoundary

\* C13: for a VagueValueRange with all four envelope bounds defined (and
\* ordered) and a scalar v, contains(v) is true exactly when v lies inside
\* the narrowest guaranteed range.
C13_VagueContainsIffInsideNarrowest ==
  (call.op = "contains"
     /\ EnvelopeDefined(call.receiver)
     /\ EnvelopeOrdered(call.receiver)) =>
    (call.ret <=> InsideNarrowest(call.receiver, call.arg))

\* Every value the range a admits is admitted by the range b.
AdmitsNoMoreThan(a, b) ==
  \A v \in Values : WithinBoundaries(a, v) => WithinBoundaries(b, v)

\* C14: refineUpperBoundary(v) and refineLowerBoundary(v) return the
\* receiver when v is undefined or lies outside the current bound in the
\* widening direction, and otherwise a range whose refined boundary is v
\* with the other boundary and both flags unchanged; the result admits no
\* value the receiver did not admit.
C14_RefineNeverWidens ==
  /\ call.op = "refineUpperBoundary" =>
       /\ call.ret =
            IF \/ call.arg = Undefined
               \/ /\ call.receiver.upperBoundary # Undefined
                  /\ The(call.arg) > The(call.receiver.upperBoundary)
              THEN call.receiver
              ELSE [call.receiver EXCEPT !.upperBoundary = call.arg]
       /\ AdmitsNoMoreThan(call.ret, call.receiver)
  /\ call.op = "refineLowerBoundary" =>
       /\ call.ret =
            IF \/ call.arg = Undefined
               \/ /\ call.receiver.lowerBoundary # Undefined
                  /\ The(call.arg) < The(call.receiver.lowerBoundary)
              THEN call.receiver
              ELSE [call.receiver EXCEPT !.lowerBoundary = call.arg]
       /\ AdmitsNoMoreThan(call.ret, call.receiver)

Greater(a, b) == IF a > b THEN a ELSE b

Lesser(a, b) == IF a < b THEN a ELSE b

\* C15: for a range with a defined upper boundary u, expandUpperBoundary(v)
\* returns a range whose upper boundary is the greater of u and v for a
\* defined v and unbounded for v undefined; a range without an upper
\* boundary is returned unchanged; the lower boundary and both flags are
\* preserved.  expandLowerBoundary is symmetric with the lesser of the
\* lower boundary and v.
C15_ExpandBoundaryLoosens ==
  /\ call.op = "expandUpperBoundary" =>
       call.ret =
         IF call.receiver.upperBoundary = Undefined THEN call.receiver
         ELSE IF call.arg = Undefined
           THEN [call.receiver EXCEPT !.upperBoundary = Undefined]
         ELSE [call.receiver EXCEPT
                 !.upperBoundary =
                   Some(Greater(The(call.receiver.upperBoundary),
                                The(call.arg)))]
  /\ call.op = "expandLowerBoundary" =>
       call.ret =
         IF call.receiver.lowerBoundary = Undefined THEN call.receiver
         ELSE IF call.arg = Undefined
           THEN [call.receiver EXCEPT !.lowerBoundary = Undefined]
         ELSE [call.receiver EXCEPT
                 !.lowerBoundary =
                   Some(Lesser(The(call.receiver.lowerBoundary),
                               The(call.arg)))]

\* Containing v would require moving an exclusive boundary of r.
NeedsExclusiveBoundary(r, v) ==
  \/ /\ r.lowerBoundary # Undefined
     /\ ~r.includesLowerBoundary
     /\ v <= The(r.lowerBoundary)
  \/ /\ r.upperBoundary # Undefined
     /\ ~r.includesUpperBoundary
     /\ v >= The(r.upperBoundary)

\* C16: R.expand(v) fails with an error whenever v is at or below an
\* exclusive lower boundary or at or above an exclusive upper boundary.
C16_ExpandFailsOnExclusiveBoundary ==
  (call.op = "expand" /\ NeedsExclusiveBoundary(call.receiver, call.arg)) =>
    call.threw # "none"

\* C17: for a range A with both boundaries defined, A.compareTo(A) reports
\* equal: isEqual is true, isLesser and isGreater are false.
C17_CompareToReflexive ==
  (call.op = "compareTo"
     /\ call.arg = call.receiver
     /\ call.receiver.lowerBoundary # Undefined
     /\ call.receiver.upperBoundary # Undefined) =>
    /\ call.ret.isEqual
    /\ ~call.ret.isLesser
    /\ ~call.ret.isGreater

\* A comparison result is lesser by the number it carries (valueOf).
ResultLesser(c) == NumLess(valueOf(c), Num(0))

BothBoundariesDefined(r) ==
  r.lowerBoundary # Undefined /\ r.upperBoundary # Undefined

\* C18: compareTo is transitive over ranges with defined boundaries: if
\* A.compareTo(B) is lesser and B.compareTo(C) is lesser then
\* A.compareTo(C) is lesser, both by the isLesser flag of the results and
\* by the sign of the number they carry.
C18_CompareToTransitive ==
  (call.op = "compareTo"
     /\ BothBoundariesDefined(call.receiver)
     /\ BothBoundariesDefined(call.arg)) =>
    \A c \in {r \in Ranges : BothBoundariesDefined(r)} :
      /\ (call.ret.isLesser /\ compareTo(call.arg, c).isLesser) =>
           compareTo(call.receiver, c).isLesser
      /\ (ResultLesser(call.ret) /\ ResultLesser(compareTo(call.arg, c))) =>
           ResultLesser(compareTo(call.receiver, c))

\* C18 witness: A.compareTo(B) was lesser for closed ranges A and B with
\* defined boundaries, and a range C exists with B.compareTo(C) lesser and
\* A.compareTo(C) lesser.
C18_Witness ==
  /\ call.op = "compareTo"
  /\ BothBoundariesDefined(call.receiver)
  /\ BothBoundariesDefined(call.arg)
  /\ ResultLesser(call.ret)
  /\ \E c \in {r \in Ranges : BothBoundariesDefined(r)} :
       /\ ResultLesser(compareTo(call.arg, c))
       /\ ResultLesser(compareTo(call.receiver, c))

\* No value is admitted by the order and inclusivity of the boundaries.
NoAdmissibleValue(r) ==
  /\ r.lowerBoundary # Undefined
  /\ r.upperBoundary # Undefined
  /\ \/ The(r.lowerBoundary) > The(r.upperBoundary)
     \/ /\ The(r.lowerBoundary) = The(r.upperBoundary)
        /\ ~(r.includesLowerBoundary /\ r.includesUpperBoundary)

\* C19: isEmpty is true exactly when both boundaries are defined and
\* lower > upper, or lower = upper with at least one boundary exclusive;
\* in particular a closed range with lower > upper is empty.
C19_IsEmptyIffNoAdmissibleValue ==
  call.op = "isEmpty" => (call.ret <=> NoAdmissibleValue(call.receiver))

\* The number of flags of a comparison result that are true.
FlagCount(c) ==
  (IF c.isLesser THEN 1 ELSE 0) + (IF c.isEqual THEN 1 ELSE 0)
    + (IF c.isGreater THEN 1 ELSE 0)

\* C20: getComparisonResult(n) classifies n by sign: isLesser iff n < 0,
\* isEqual iff n = 0, isGreater iff n > 0, all false for NaN; exactly one
\* flag is true when exists is true and none when exists is false.
C20_ComparisonResultClassifiesSign ==
  call.op = "getComparisonResult" =>
    /\ call.ret.isLesser <=> NumLess(call.arg, Num(0))
    /\ call.ret.isEqual <=> NumEqual(call.arg, Num(0))
    /\ call.ret.isGreater <=> NumLess(Num(0), call.arg)
    /\ call.ret.exists => FlagCount(call.ret) = 1
    /\ ~call.ret.exists => FlagCount(call.ret) = 0

\* The envelope of a vague range an expansion targets, and the other one.
TargetedEnvelope(r, side) ==
  IF side = "lower" THEN r.lowerBoundary ELSE r.upperBoundary

OppositeEnvelope(r, side) ==
  IF side = "lower" THEN r.upperBoundary ELSE r.lowerBoundary

\* The same expansion with the one-point range [x, x].
ExpandedByPoint(r, side, x) ==
  IF side = "lower"
    THEN vagueExpandLowerBoundary(
           r, Some(RangeBoundary(closedRange(Some(x), Some(x)))))
    ELSE vagueExpandUpperBoundary(
           r, Some(RangeBoundary(closedRange(Some(x), Some(x)))))

\* A call of expandLowerBoundary / expandUpperBoundary with a scalar on a
\* range that has the targeted envelope.
ScalarExpansion ==
  /\ call.op = "expandBoundary"
  /\ call.arg # Undefined
  /\ ~The(call.arg).isRange
  /\ TargetedEnvelope(call.receiver, call.side) # Undefined

\* C21: expandLowerBoundary(x) and expandUpperBoundary(x) with a scalar x
\* give the result of the same call with closedRange(x, x), the targeted
\* envelope of the result covers x, and the opposite envelope and both
\* inclusivity flags are unchanged.
C21_ScalarExpandsAsPointRange ==
  ScalarExpansion =>
    /\ call.ret
         = ExpandedByPoint(call.receiver, call.side, The(call.arg).scalar)
    /\ \/ TargetedEnvelope(call.ret, call.side) = Undefined
       \/ WithinBoundaries(The(TargetedEnvelope(call.ret, call.side)),
                           The(call.arg).scalar)
    /\ OppositeEnvelope(call.ret, call.side)
         = OppositeEnvelope(call.receiver, call.side)
    /\ call.ret.includesLowerBoundary = call.receiver.includesLowerBoundary
    /\ call.ret.includesUpperBoundary = call.receiver.includesUpperBoundary

\* The companion fields of a base field in the field-presence table.
Companions(base) ==
  CASE base = "day" -> {"week", "month", "year"}
    [] base = "year" -> {"era"}
    [] base = "week" -> {"month", "year"}
    [] base = "month" -> {"quarter", "year"}
    [] base = "quarter" -> {"year"}
    [] base = "era" -> {}

\* A getField call on a bag that holds the base field and none of its
\* companions.
WithoutCompanions ==
  /\ call.op = "getField"
  /\ call.baseField \in DOMAIN call.fields
  /\ Companions(call.baseField) \cap DOMAIN call.fields = {}

\* C22 as stated: a bag that contains the base field b but none of its
\* companions resolves getField(bag, b) to undefined, for every generic
\* base field b.
C22_NoCompanionsIsUndefined ==
  WithoutCompanions => call.ret = Undefined

\* C22 amended: a bag that contains the base field b but none of its
\* companions resolves getField(bag, b) to undefined for day, week, month
\* and quarter, to canonicalYear for year and to era for era.
C22_NoCompanionsResolution ==
  WithoutCompanions =>
    call.ret = CASE call.baseField = "year" -> Some("canonicalYear")
                 [] call.baseField = "era" -> Some("era")
                 [] OTHER -> Undefined

\* C22 witness: getField on a bag with quarter and era but no year
\* resolved quarter to undefined.
C22_Witness ==
  /\ call.op = "getField"
  /\ call.baseField = "quarter"
  /\ DOMAIN call.fields = {"quarter", "era"}
  /\ call.ret = Undefined

\* C23: an error raised by a shape constructor while createInstance
\* builds the selected instance reaches the caller of createInstance as
\* that same error; it is not discarded or replaced by another error.
C23_ConstructorErrorPropagates ==
  (call.op = "createInstance"
     /\ call.built # Undefined
     /\ The(call.built).threw # "none") =>
    /\ call.threw = The(call.built).threw
    /\ call.error = The(call.built).error

\* createInstance never calls a shape constructor: the case C23 speaks of
\* does not occur in any createInstance call.
C23_NoConstructorCalled ==
  call.op = "createInstance" => call.built = Undefined

\* The same statement for the instance closure of a declaration called
\* directly, with nested declarations of the caller's own.
ClosureKeepsConstructorError ==
  (call.op = "declarationInstance"
     /\ call.built # Undefined
     /\ The(call.built).threw # "none") =>
    /\ call.threw = The(call.built).threw
    /\ call.error = The(call.built).error

\* C24: createInstance on a bag with year and day but no month resolves
\* the day to dayOfYear and returns an instance, and the dayOfYear range
\* of the ISO field definitions contains 365 for every year (366 being
\* contained only for a leap year of the calendar).
C24_DayOfYearRangeFollowsLeapYear ==
  (call.op = "createInstance" /\ DOMAIN call.source = {"year", "day"}) =>
    /\ getField(call.source, "day") = Some("dayOfYear")
    /\ call.threw = "none"
    /\ ISODayOfYear.threw = "none"
    /\ vagueContains(The(ISODayOfYear.value).range, DaysInYear)

\* The four allowed field paths of the Date structure.
DatePaths ==
  {<<"year", y, "day", d>> :
     y \in {"canonicalYear", "yearOfEra"}, d \in {"dayOfMonth", "dayOfYear"}}

\* C25: composeAllowedFields returns, for the Date structure, exactly the
\* four paths [year, y, day, d] with y in {canonicalYear, yearOfEra} and d
\* in {dayOfMonth, dayOfYear}, and a non-empty list for every non-empty
\* structure.
C25_ComposeAllowedFieldsListsPaths ==
  call.op = "composeAllowedFields" =>
    /\ call.fieldStruct = DateStructure =>
         /\ Len(call.ret) = 4
         /\ {call.ret[i] : i \in 1..Len(call.ret)} = DatePaths
    /\ call.fieldStruct # <<>> => Len(call.ret) > 0

\* C26: constructing a BasicCalendarInstance with integer field values
\* does not throw and stores every supplied field: get(f) returns the
\* supplied value for each supplied field f.
C26_ConstructionStoresFields ==
  call.op = "newInstance" =>
    /\ call.threw = "none"
    /\ \A i \in 1..Len(call.fieldValues) :
         get(The(call.ret), Some(call.fieldValues[i].name))
           = Some(call.fieldValues[i].value)

\* C27: on an immutable CalendarBuilder, addSupportedField(f) with a field
\* f not yet supported completes normally, leaves the receiver as it was
\* and returns an immutable builder that supports f and every field of the
\* receiver.
C27_ImmutableAddReturnsExtendedBuilder ==
  ( /\ call.op = "addSupportedField"
    /\ call.done
    /\ call.receiver.immutable
    /\ call.fieldName \notin DOMAIN call.receiver.fields ) =>
      /\ call.threw = "none"
      /\ calendarBuilder = Some(call.receiver)
      /\ call.ret # Undefined
      /\ The(call.ret).immutable
      /\ DOMAIN The(call.ret).fields =
           DOMAIN call.receiver.fields \cup {call.fieldName}

\* C29: new FieldBuilder(name) completes: once the call has finished it has
\* returned a builder, whose supportedFields map is finite, and it has not
\* raised an error.
C29_FieldBuilderConstructionCompletes ==
  (call.op = "newFieldBuilder" /\ call.done) =>
    /\ call.threw = "none"
    /\ call.ret # Undefined
    /\ IsFiniteSet(DOMAIN The(call.ret).supportedFields)

\* A comparison result is greater by the number it carries (valueOf).
ResultGreater(c) == NumLess(Num(0), valueOf(c))

\* C28: compareTo is antisymmetric over all ranges, unbounded sides
\* included: A.compareTo(B) is lesser exactly when B.compareTo(A) is
\* greater, by the flags of the results and by the sign of the number they
\* carry, A.compareTo(B) is equal exactly when B.compareTo(A) is equal, and
\* a range compared with a range of the same boundaries and flags is equal.
C28_CompareToAntisymmetric ==
  call.op = "compareTo" =>
    LET back == compareTo(call.arg, call.receiver)
    IN /\ call.ret.isLesser <=> back.isGreater
       /\ ResultLesser(call.ret) <=> ResultGreater(back)
       /\ call.ret.isEqual <=> back.isEqual
       /\ call.arg = call.receiver => call.ret.isEqual

\* C30: new Calendar(name, options) and new ISOCalendar(name, options)
\* complete without an error for every options value, and the calendar has
\* calendarName = name, offsets defaulting to the empty record and
\* startOfYear defaulting to {day: 1}.
C30_CalendarConstructionCompletes ==
  (call.op = "newCalendar" /\ call.class \in {"Calendar", "ISOCalendar"}) =>
    /\ call.threw = "none"
    /\ call.ret # Undefined
    /\ The(call.ret).calendarName = call.calendarName
    /\ ( \/ call.calendarOptions = Undefined
         \/ The(call.calendarOptions).offset = Undefined ) =>
           The(call.ret).offsets = EmptyRecord
    /\ ( \/ call.calendarOptions = Undefined
         \/ The(call.calendarOptions).startOfYear = Undefined ) =>
           The(call.ret).startOfYear = [day |-> 1]

====
